---- MODULE Spec2Model ----
(***************************************************************************)
(* Model of the network monitoring core of net-watch-time-series:          *)
(*   MonitoringManager  (the periodic timer and the tick callback),        *)
(*   SnapshotManager    (the bounded per-network series and its observers),*)
(*   NetworkMonitor / NetworkService (the facade that wires them).         *)
(* An await on a measurement is a suspension point: a tick is split into   *)
(* the timer firing, the latency measurement returning and the throughput  *)
(* measurement returning, and other handlers may run in between.           *)
(***************************************************************************)
EXTENDS Integers, Sequences, FiniteSets, Bags, TLC

\* ------------------------------------------------------------------ bounds

\* Timer firings in a behaviour of Spec.
MaxTicks == 2
\* Ticks whose measurement is in flight at the same time.
MaxInflight == 2
\* Unsubscribe functions handed out in a behaviour of Spec.
MaxSubs == 1
\* Timer firings and unsubscribe functions in a behaviour of SpecHub.
HubTicks == 2
HubSubs == 2
\* Timer firings in a behaviour of SpecClassify.
ClassifyTicks == 2
\* Timer firings in a behaviour of SpecLong (beyond the series capacity).
LongTicks == 103
\* Timer firings in a behaviour of SpecLoss (beyond the stats window).
LossTicks == 11
\* SpecMetrics: the length of the stored series of mixed latencies, and of
\* the stored series of rising or mostly zero latencies.
MixedLen == 4
MetricsLen == 21
\* Timer firings and unsubscribe functions in a behaviour of SpecFault.
FaultTicks == 2
FaultSubs == 1
\* Timer firings and unsubscribe functions in a behaviour of SpecRoute.
RouteTicks == 1
RouteSubs == 3
\* Timer firings and unsubscribe functions in a behaviour of SpecThrow.
ThrowTicks == 1
ThrowSubs == 2
\* Timer firings and unsubscribe functions in a behaviour of SpecObs.
ObsTicks == 1
ObsSubs == 2
\* Snapshots captured and subscriptions held in a behaviour of SpecSingle.
SingleCaptures == 2
SingleSubs == 2

\* -------------------------------------------------------- program constants

\* SnapshotManager.addSnapshot keeps the last 100 snapshots.
MaxSnapshots == 100
\* calculateStats looks at the last 10 snapshots.
StatsWindow == 10
\* The tick callback runs a speed test when the series length is a multiple of 5.
SpeedTestEvery == 5
\* MonitoringManager.checkNetwork: below 100 ms is good, below 300 ms is warning.
GoodBelow == 100
WarningBelow == 300
\* The single-series NetworkService: up to 150 ms is good, up to 300 ms is warning.
goodThreshold == 150
warningThreshold == 300

\* The single-series NetworkService keeps at most 100 data points.
maxDataPoints == 100
\* setInterval(..., 3000): the timer period, in milliseconds.
MonitoringPeriodMs == 3000

\* ------------------------------------------------------------------ inputs

\* The networkName argument of the public operations; "" is undefined.
NetworkArgs == {"", "A"}
\* The networkName arguments of SpecRoute: three keys.
RouteNetworkArgs == {"", "A", "B"}
\* The latency a measurement returns in Spec and SpecLong.
PingValues == {120}
\* Latencies of SpecHub; -1 is the timeout sentinel.
HubPingValues == {-1, 120}
\* Latencies around the classifier's thresholds (SpecClassify).
WidePingValues == {-1, 0, 50, 99, 100, 150, 151, 200, 299, 300, 301, 350}
\* Results of a throughput measurement; 0 is a valid measured value.
SpeedResults == {[download |-> 0, upload |-> 0]}
WideSpeedResults == {[download |-> 0, upload |-> 0], [download |-> 50, upload |-> 20]}
\* Latencies of the stored series of SpecMetrics.
MixedPingValues == {-1, 50, 100, 400}
\* The timeframe argument of getHistoricalMetrics.
Timeframes == {"hour", "day", "week"}
\* Series and stats observers; monitoring-state observers.
Callbacks == {"c1"}
HubCallbacks == {"c1", "c2"}
MonCallbacks == {"m1"}
ObsMonCallbacks == {"m1", "m2"}
\* Observers whose callback throws when it is called.
ThrowingCallbacks == {"x1", "mx"}
\* The series observers and the monitoring-state observers of SpecThrow.
ThrowCallbacks == {"c1", "x1"}
ThrowMonCallbacks == {"m1", "mx"}
\* A monitoring-state observer whose callback throws when it is handed true
\* and returns when it is handed false, and the observers of SpecAbort.
ThrowingOnTrue == {"mt"}
AbortMonCallbacks == {"m1", "mt"}

\* ------------------------------------------------------------ pure helpers

\* JavaScript `name || 'default'`.
OrDefault(name) == IF name = "" THEN "default" ELSE name

\* An optional number is <<>> (undefined) or <<v>>.
Undefined == <<>>
Defined(v) == <<v>>

\* Ordered JavaScript Set: insertion order, no duplicates.
SetAdd(s, x) == IF \E i \in 1..Len(s) : s[i] = x THEN s ELSE Append(s, x)
SetDelete(s, x) == SelectSeq(s, LAMBDA y : y # x)

\* Map.get(key) of a map of arrays / sets, with the `|| []` fallback.
GetOrEmpty(m, key) == IF key \in DOMAIN m THEN m[key] ELSE <<>>
\* `if (!map.has(key)) map.set(key, empty)`.
EnsureKey(m, key) == IF key \in DOMAIN m THEN m ELSE m @@ (key :> <<>>)

\* ------------------------------------------------------- MonitoringManager

\* Faulty variant of checkNetworkStatus: the else branch of `if (online)` is
\* missing, so a failed measurement keeps the initial 'unknown'.
checkNetworkStatusOfflineUnknown(pingTime) ==
    IF pingTime >= 0
    THEN IF pingTime < GoodBelow THEN "good"
         ELSE IF pingTime < WarningBelow THEN "warning" ELSE "error"
    ELSE "unknown"

\* The status checkNetwork derives from the measured latency
\* (online = pingTime >= 0).
checkNetworkStatus(pingTime) ==
    IF pingTime >= 0
    THEN IF pingTime < GoodBelow THEN "good"
         ELSE IF pingTime < WarningBelow THEN "warning" ELSE "error"
    ELSE "error"

\* The status captureSnapshot of the single-series NetworkService derives from
\* the measured latency and navigator.onLine.
captureSnapshotStatus(pingTime, online) ==
    IF ~online THEN "error"
    ELSE IF pingTime < 0 THEN "error"
    ELSE IF pingTime <= goodThreshold THEN "good"
    ELSE IF pingTime <= warningThreshold THEN "warning"
    ELSE "error"

\* The snapshot checkNetwork builds once the latency measurement has returned.
checkNetwork(net, pingTime, time) ==
    [timestamp    |-> time,
     pingTime     |-> pingTime,
     status       |-> checkNetworkStatus(pingTime),
     online       |-> pingTime >= 0,
     networkName  |-> net,
     downloadSpeed |-> Undefined,
     uploadSpeed  |-> Undefined]

\* runSpeedTest: the snapshot with the measured throughput attached.
runSpeedTest(snapshot, speed) ==
    [snapshot EXCEPT !.downloadSpeed = Defined(speed.download),
                     !.uploadSpeed = Defined(speed.upload)]

\* `snapshotsLength % 5 === 0` in the interval callback.
speedTestDue(snapshotsLength) == snapshotsLength % SpeedTestEvery = 0

\* --------------------------------------------------------- SnapshotManager

getSnapshotsLength(snaps, networkName) == Len(GetOrEmpty(snaps, networkName))

getSnapshots(snaps, networkName) == GetOrEmpty(snaps, OrDefault(networkName))

\* Faulty variant of initializeNetwork: the series is set to [] without
\* the has() test.
initializeNetworkResets(snaps, networkName) ==
    (networkName :> <<>>) @@ snaps

initializeNetwork(snaps, networkName) == EnsureKey(snaps, networkName)

\* Faulty variant of pushBounded: the oldest snapshot is never shifted out.
pushBoundedNoShift(series, snapshot) == Append(series, snapshot)

\* Faulty variant of pushBounded: at capacity the newest stored sample is
\* dropped (pop) instead of the oldest (shift).
pushBoundedPop(series, snapshot) ==
    Append(IF Len(series) >= MaxSnapshots THEN SubSeq(series, 1, Len(series) - 1)
           ELSE series, snapshot)

\* The array after `if (length >= 100) shift(); push(snapshot)`.
pushBounded(series, snapshot) ==
    Append(IF Len(series) >= MaxSnapshots THEN Tail(series) ELSE series, snapshot)

\* The snapshots map after addSnapshot.
addSnapshotStore(snaps, snapshot) ==
    LET networkName == OrDefault(snapshot.networkName)
        ensured == EnsureKey(snaps, networkName)
    IN  [ensured EXCEPT ![networkName] = pushBounded(@, snapshot)]

\* Faulty variant of SeqMin: the first latency instead of the smallest.
SeqMinFirst(s) == s[1]

\* calculateStats: the rolling statistics of the last 10 snapshots.
SeqMin(s) == CHOOSE x \in {s[i] : i \in 1..Len(s)} : \A j \in 1..Len(s) : x <= s[j]
\* Faulty variant of SeqMax: the first latency instead of the largest.
SeqMaxFirst(s) == s[1]

SeqMax(s) == CHOOSE x \in {s[i] : i \in 1..Len(s)} : \A j \in 1..Len(s) : x >= s[j]
LastN(s, n) == IF Len(s) <= n THEN s ELSE SubSeq(s, Len(s) - n + 1, Len(s))

\* The packet loss (lost / of) * 100 is kept as the exact fraction lost / of.
NoLoss == [lost |-> 0, of |-> 1]

DefaultStats ==
    [status |-> "unknown", currentPing |-> 0, min |-> 0, max |-> 0,
     packetLoss |-> NoLoss, networkName |-> "",
     downloadSpeed |-> Undefined, uploadSpeed |-> Undefined]

\* Faulty variant of hasSpeed: `s.downloadSpeed && s.uploadSpeed`, which
\* takes a measured 0 for a missing value.
hasSpeedTruthy(s) ==
    /\ s.downloadSpeed # Undefined /\ s.downloadSpeed # Defined(0)
    /\ s.uploadSpeed # Undefined /\ s.uploadSpeed # Defined(0)

hasSpeed(s) == s.downloadSpeed # Undefined /\ s.uploadSpeed # Undefined

\* The stats of a non-empty window; `x || fallback` keeps a non-empty status
\* and a non-zero latency, and 0 || 0 is 0.
windowStats(recentSnapshots) ==
    LET n == Len(recentSnapshots)
        pingTimes == SelectSeq([i \in 1..n |-> recentSnapshots[i].pingTime],
                               LAMBDA p : p >= 0)
        lost == Len(SelectSeq(recentSnapshots, LAMBDA s : ~s.online \/ s.pingTime < 0))
        withSpeed == {i \in 1..n : hasSpeed(recentSnapshots[i])}
        latestSnapshot == recentSnapshots[n]
        latestWithSpeed == recentSnapshots[CHOOSE i \in withSpeed :
                                              \A j \in withSpeed : j <= i]
    IN  [status      |-> IF latestSnapshot.status = "" THEN "unknown"
                         ELSE latestSnapshot.status,
         currentPing |-> latestSnapshot.pingTime,
         min         |-> IF Len(pingTimes) > 0 THEN SeqMin(pingTimes) ELSE 0,
         max         |-> IF Len(pingTimes) > 0 THEN SeqMax(pingTimes) ELSE 0,
         packetLoss  |-> IF lost = 0 THEN NoLoss ELSE [lost |-> lost, of |-> n],
         networkName |-> latestSnapshot.networkName,
         downloadSpeed |-> IF withSpeed = {} THEN Undefined
                           ELSE latestWithSpeed.downloadSpeed,
         uploadSpeed |-> IF withSpeed = {} THEN Undefined
                         ELSE latestWithSpeed.uploadSpeed]

\* Faulty variant of calculateStats: without the early return for an empty
\* series the packet loss is (0 / 0) * 100, which is NaN.
calculateStatsNoEmptyReturn(snaps) ==
    IF Len(snaps) = 0
    THEN [DefaultStats EXCEPT !.packetLoss = [lost |-> 0, of |-> 0]]
    ELSE windowStats(LastN(snaps, StatsWindow))

\* Faulty variant of calculateStats: the series is not cut to its last 10.
calculateStatsWholeSeries(snaps) ==
    IF Len(snaps) = 0 THEN DefaultStats ELSE windowStats(snaps)

\* calculateStats: the default for an empty series, else the window's stats.
calculateStats(snaps) ==
    LET recentSnapshots == LastN(snaps, StatsWindow)
    IN  IF Len(recentSnapshots) = 0 THEN DefaultStats ELSE windowStats(recentSnapshots)

\* ------------------------------------------------------ historical metrics

\* A quotient the code computes in floating point, kept exact as num / den.
Ratio(num, den) == [num |-> num, den |-> den]
ZeroRatio == Ratio(0, 1)

RECURSIVE SeqSum(_)
SeqSum(s) == IF s = <<>> THEN 0 ELSE Head(s) + SeqSum(Tail(s))

\* Array.prototype.sort((a, b) => a - b) on numbers.
InsertSorted(sorted, x) ==
    LET k == Cardinality({i \in 1..Len(sorted) : sorted[i] <= x})
    IN  SubSeq(sorted, 1, k) \o <<x>> \o SubSeq(sorted, k + 1, Len(sorted))

RECURSIVE SortAsc(_)
SortAsc(s) == IF s = <<>> THEN <<>> ELSE InsertSorted(SortAsc(Tail(s)), Head(s))

\* The length of the timeframe in milliseconds.
timeframeMs(timeframe) ==
    IF timeframe = "hour" THEN 60 * 60 * 1000
    ELSE IF timeframe = "week" THEN 7 * 24 * 60 * 60 * 1000
    ELSE 24 * 60 * 60 * 1000

\* Faulty variant of inTimeframe: `s.timestamp > now - limit`.
inTimeframeExclusive(snapshot, timeframe, time) ==
    snapshot.timestamp * MonitoringPeriodMs
        > time * MonitoringPeriodMs - timeframeMs(timeframe)

\* `s.timestamp >= now - limit`; the clock and the timestamps count timer periods.
inTimeframe(snapshot, timeframe, time) ==
    snapshot.timestamp * MonitoringPeriodMs
        >= time * MonitoringPeriodMs - timeframeMs(timeframe)

\* Math.floor(length * 0.95); for a length up to 100 the double product
\* floors to the same integer as the exact 95 * length / 100.
p95Index(length) == (95 * length) \div 100

\* The average of the speeds of the snapshots that carry both speeds.
avgSpeed(snaps, field) ==
    LET withSpeed == SelectSeq(snaps, hasSpeed)
    IN  IF Len(withSpeed) > 0
        THEN Ratio(SeqSum([i \in 1..Len(withSpeed) |-> withSpeed[i][field][1]]),
                   Len(withSpeed))
        ELSE ZeroRatio

NoMetrics ==
    [availabilityPercentage |-> ZeroRatio, avgPing |-> ZeroRatio, p95Ping |-> 0,
     avgDownloadSpeed |-> ZeroRatio, avgUploadSpeed |-> ZeroRatio]

\* NetworkService.getHistoricalMetrics on the series of the key.
getHistoricalMetrics(snaps, timeframe, time) ==
    LET filteredSnapshots == SelectSeq(snaps, LAMBDA s : inTimeframe(s, timeframe, time))
        onlineCount == Len(SelectSeq(filteredSnapshots, LAMBDA s : s.online))
        validPings == SelectSeq(filteredSnapshots, LAMBDA s : s.online /\ s.pingTime >= 0)
        sortedPings == SortAsc([i \in 1..Len(validPings) |-> validPings[i].pingTime])
        index == p95Index(Len(sortedPings))
    IN  IF Len(filteredSnapshots) = 0 THEN [snapshots |-> <<>>] @@ NoMetrics
        ELSE [snapshots |-> filteredSnapshots,
              availabilityPercentage |-> Ratio(onlineCount, Len(filteredSnapshots)),
              avgPing |-> IF Len(validPings) > 0
                          THEN Ratio(SeqSum(sortedPings), Len(validPings))
                          ELSE ZeroRatio,
              p95Ping |-> IF Len(sortedPings) > 0
                          THEN sortedPings[(IF index >= Len(sortedPings)
                                            THEN Len(sortedPings) - 1 ELSE index) + 1]
                          ELSE 0,
              avgDownloadSpeed |-> avgSpeed(filteredSnapshots, "downloadSpeed"),
              avgUploadSpeed |-> avgSpeed(filteredSnapshots, "uploadSpeed")]

\* NetworkAnalyzer.getHistoricalMetrics on an array of snapshots.
analyzerGetHistoricalMetrics(snaps, timeframe, time) ==
    LET filteredSnapshots == SelectSeq(snaps, LAMBDA s : inTimeframe(s, timeframe, time))
        available == Len(SelectSeq(filteredSnapshots,
                         LAMBDA s : s.online /\ s.pingTime >= 0 /\ s.pingTime < 300))
        validPings == SelectSeq(filteredSnapshots, LAMBDA s : s.pingTime >= 0)
        pingTimes == SortAsc([i \in 1..Len(validPings) |-> validPings[i].pingTime])
        index == p95Index(Len(pingTimes))
    IN  IF Len(filteredSnapshots) = 0 THEN NoMetrics
        ELSE [availabilityPercentage |-> Ratio(available, Len(filteredSnapshots)),
              avgPing |-> IF Len(validPings) > 0
                          THEN Ratio(SeqSum(pingTimes), Len(validPings))
                          ELSE ZeroRatio,
              \* pingTimes[p95Index] || pingTimes[length - 1]: 0 is falsy
              p95Ping |-> IF Len(pingTimes) > 0
                          THEN IF index + 1 <= Len(pingTimes) /\ pingTimes[index + 1] # 0
                               THEN pingTimes[index + 1]
                               ELSE pingTimes[Len(pingTimes)]
                          ELSE 0,
              avgDownloadSpeed |-> avgSpeed(filteredSnapshots, "downloadSpeed"),
              avgUploadSpeed |-> avgSpeed(filteredSnapshots, "uploadSpeed")]

\* ------------------------------------------------------------------- state

VARIABLES
    intervalId,              \* MonitoringManager.intervalId; 0 is null
    timers,                  \* the ids of the active window.setInterval timers
    currentNetwork,          \* MonitoringManager.currentNetwork; "" is undefined
    isMonitoring,            \* MonitoringManager.isMonitoring
    monitoringSubscribers,   \* MonitoringManager.monitoringSubscribers
    snapshots,               \* SnapshotManager.snapshots: key -> array
    subscribers,             \* SnapshotManager.subscribers: key -> ordered set
    statsSubscribers,        \* SnapshotManager.statsSubscribers: key -> ordered set
    serviceStatsSubscribers, \* NetworkService.statsSubscribers: key -> ordered set
    tasks,                   \* the interval callbacks suspended at an await
    now,                     \* the clock, in timer periods (Date.now())
    handles,                 \* the unsubscribe functions handed out so far
    calls,                   \* the observer invocations made by the last handler
    lastOp,                  \* the last handler that ran, with its arguments
    arrived,                 \* history: every snapshot appended, per key
    lastStarted,             \* history: the network of the last start; "" if none
    saves,                   \* the metricsStorage.saveMetric promises not yet settled
    logged,                  \* console.error lines of addSnapshot's catch handler
    returned,                \* what the last query returned; <<>> after other handlers
    singleData,              \* single-series NetworkService.data
    dataSubscribers,         \* single-series NetworkService.subscribers (an array)
    dataStatsSubscribers     \* single-series NetworkService.statsSubscribers (an array)

vars == <<intervalId, timers, currentNetwork, isMonitoring, monitoringSubscribers,
          snapshots, subscribers, statsSubscribers, serviceStatsSubscribers,
          tasks, now, handles, calls, lastOp, arrived, lastStarted,
          saves, logged, returned, singleData, dataSubscribers, dataStatsSubscribers>>

schedulerVars == <<intervalId, timers, currentNetwork, isMonitoring, lastStarted>>
storeVars == <<snapshots, arrived, saves>>
singleVars == <<singleData, dataSubscribers, dataStatsSubscribers>>
hubVars == <<monitoringSubscribers, subscribers, statsSubscribers,
             serviceStatsSubscribers, handles>>

Op(op, cb, name) == [op |-> op, cb |-> cb, name |-> name]

\* One observer invocation: who was called, and with what.
SeriesCall(cb, data) ==
    [cb |-> cb, kind |-> "series", series |-> data, stats |-> DefaultStats, flag |-> FALSE]
StatsCall(cb, stats) ==
    [cb |-> cb, kind |-> "stats", series |-> <<>>, stats |-> stats, flag |-> FALSE]
MonitoringCall(cb, flag) ==
    [cb |-> cb, kind |-> "monitoring", series |-> <<>>, stats |-> DefaultStats, flag |-> flag]

\* A registration in SnapshotManager.subscribers: a series callback, or the
\* closure NetworkService.subscribeToStats registers (one per call, id > 0).
SeriesReg(cb) == [kind |-> "series", cb |-> cb, id |-> 0]
StatsReg(cb, id) == [kind |-> "stats", cb |-> cb, id |-> id]

\* forEach(callback => callback(...)) has no try / catch: the first callback
\* that throws ends the loop and the exception leaves the caller.
CallThrows(c) == c.cb \in ThrowingCallbacks \/ (c.cb \in ThrowingOnTrue /\ c.flag)
Throws(cs) == \E i \in 1..Len(cs) : CallThrows(cs[i])
UntilThrow(cs) ==
    IF Throws(cs)
    THEN SubSeq(cs, 1, CHOOSE i \in 1..Len(cs) :
                          /\ CallThrows(cs[i])
                          /\ \A j \in 1..(i - 1) : ~CallThrows(cs[j]))
    ELSE cs

\* The state after construction of the NetworkService singleton.
Init ==
    /\ intervalId = 0
    /\ timers = {}
    /\ currentNetwork = ""
    /\ isMonitoring = FALSE
    /\ monitoringSubscribers = <<>>
    /\ snapshots = ("default" :> <<>>)
    /\ subscribers = <<>>
    /\ statsSubscribers = <<>>
    /\ serviceStatsSubscribers = <<>>
    /\ tasks = EmptyBag
    /\ now = 0
    /\ handles = {}
    /\ calls = <<>>
    /\ lastOp = Op("init", "", "")
    /\ arrived = <<>>
    /\ lastStarted = ""
    /\ saves = EmptyBag
    /\ logged = 0
    /\ returned = <<>>
    /\ singleData = <<>>
    /\ dataSubscribers = <<>>
    /\ dataStatsSubscribers = <<>>

\* ----------------------------------------------------------- notifications

\* NetworkService.calculateStats(name): the stats of the stored series.
serviceCalculateStats(snaps, name) == calculateStats(getSnapshots(snaps, name))

\* Faulty variant of notifySubscribers: a stats closure computes the stats
\* of the series as it was before the push.
notifySubscribersStaleStats(subs, snaps, networkName) ==
    LET regs == GetOrEmpty(subs, networkName)
        data == getSnapshots(snaps, networkName)
        before == IF Len(data) = 0 THEN data ELSE SubSeq(data, 1, Len(data) - 1)
    IN  [i \in 1..Len(regs) |->
            IF regs[i].kind = "series"
            THEN SeriesCall(regs[i].cb, data)
            ELSE StatsCall(regs[i].cb, calculateStats(before))]

\* SnapshotManager.notifySubscribers: every registration under the key, in
\* insertion order; a stats closure recomputes the stats of its key.
notifySubscribers(subs, snaps, networkName) ==
    LET regs == GetOrEmpty(subs, networkName)
        data == getSnapshots(snaps, networkName)
    IN  [i \in 1..Len(regs) |->
            IF regs[i].kind = "series"
            THEN SeriesCall(regs[i].cb, data)
            ELSE StatsCall(regs[i].cb, serviceCalculateStats(snaps, networkName))]

\* SnapshotManager.notifyStatsSubscribers.
notifyStatsSubscribers(statsSubs, snaps, networkName) ==
    LET regs == GetOrEmpty(statsSubs, networkName)
        stats == calculateStats(getSnapshots(snaps, networkName))
    IN  [i \in 1..Len(regs) |-> StatsCall(regs[i], stats)]

\* Faulty variant of notifyMonitoringSubscribers: the observers are called
\* before isMonitoring is assigned, so they are handed the previous state.
notifyMonitoringSubscribersBeforeUpdate(monSubs, flag) ==
    [i \in 1..Len(monSubs) |-> MonitoringCall(monSubs[i], ~flag)]

\* MonitoringManager.notifyMonitoringSubscribers.
notifyMonitoringSubscribers(monSubs, flag) ==
    [i \in 1..Len(monSubs) |-> MonitoringCall(monSubs[i], flag)]

\* Faulty variant of addSnapshotCalls: addSnapshot awaits saveMetric, so the
\* step that pushes the snapshot notifies nobody.
addSnapshotCallsAfterSave(subs, statsSubs, snaps, snapshot) == <<>>

\* Faulty variant of addSnapshotCalls: the observers of "default" are left out.
addSnapshotCallsKeyOnly(subs, statsSubs, snaps, snapshot) ==
    LET networkName == OrDefault(snapshot.networkName)
    IN  notifySubscribers(subs, snaps, networkName)
        \o notifyStatsSubscribers(statsSubs, snaps, networkName)

\* The notifications addSnapshot makes after the push.
addSnapshotCalls(subs, statsSubs, snaps, snapshot) ==
    LET networkName == OrDefault(snapshot.networkName)
    IN  notifySubscribers(subs, snaps, networkName)
        \o notifyStatsSubscribers(statsSubs, snaps, networkName)
        \o (IF networkName # "default"
            THEN notifySubscribers(subs, snaps, "default")
                 \o notifyStatsSubscribers(statsSubs, snaps, "default")
            ELSE <<>>)

\* SnapshotManager.addSnapshot, as called from the interval callback.
addSnapshot(snapshot) ==
    LET networkName == OrDefault(snapshot.networkName)
    IN  /\ snapshots' = addSnapshotStore(snapshots, snapshot)
        /\ arrived' = [EnsureKey(arrived, networkName) EXCEPT
                          ![networkName] = Append(@, snapshot)]
        /\ saves' = saves (+) SetToBag({snapshot})
        /\ calls' = UntilThrow(addSnapshotCalls(subscribers, statsSubscribers,
                                                 snapshots', snapshot))

\* ---------------------------------------------------------------- scheduler

\* window.setInterval returns an id no active timer has.
FreshTimer(active) == CHOOSE id \in 1..(Cardinality(active) + 1) : id \notin active

\* Faulty variant of clearInterval: intervalId is reset without cancelling.
clearIntervalLeak(active, id) == active

\* The active timers after `if (intervalId !== null) clearInterval(intervalId)`.
clearInterval(active, id) == IF id # 0 THEN active \ {id} ELSE active

\* NetworkService.startMonitoring -> NetworkMonitor.startMonitoring:
\* MonitoringManager.startMonitoring (which stops first), initializeNetwork,
\* setupMonitoringInterval.
StartMonitoring(networkName) ==
    LET stopped == clearInterval(timers, intervalId)
        id == FreshTimer(stopped)
        stopCalls == notifyMonitoringSubscribers(monitoringSubscribers, FALSE)
        startCalls == notifyMonitoringSubscribers(monitoringSubscribers, TRUE)
    IN  IF Throws(stopCalls)
        THEN \* the notification of stopMonitoring throws: startMonitoring ends there
             /\ timers' = stopped
             /\ intervalId' = 0
             /\ isMonitoring' = FALSE
             /\ calls' = UntilThrow(stopCalls)
             /\ lastOp' = Op("start", "", OrDefault(networkName))
             /\ returned' = <<>>
             /\ UNCHANGED <<currentNetwork, lastStarted, storeVars, hubVars, tasks, now,
                            logged, singleVars>>
        ELSE IF Throws(startCalls)
        THEN \* the notification of startMonitoring throws after the state was
             \* set: initializeNetwork and setupMonitoringInterval are not reached
             /\ timers' = stopped
             /\ intervalId' = 0
             /\ isMonitoring' = TRUE
             /\ currentNetwork' = OrDefault(networkName)
             /\ calls' = stopCalls \o UntilThrow(startCalls)
             /\ lastOp' = Op("start", "", OrDefault(networkName))
             /\ returned' = <<>>
             /\ UNCHANGED <<lastStarted, storeVars, hubVars, tasks, now, logged, singleVars>>
        ELSE /\ isMonitoring' = TRUE
             /\ currentNetwork' = OrDefault(networkName)
             /\ snapshots' = initializeNetwork(snapshots, currentNetwork')
             /\ intervalId' = id
             /\ timers' = stopped \cup {id}
             /\ calls' = stopCalls \o startCalls
             /\ lastOp' = Op("start", "", OrDefault(networkName))
             /\ lastStarted' = OrDefault(networkName)
             /\ returned' = <<>>
             /\ UNCHANGED <<hubVars, tasks, now, arrived, saves, logged, singleVars>>

\* Faulty variant of StopMonitoring: `this.isMonitoring = false` is missing.
StopMonitoringKeepsFlag ==
    /\ timers' = clearInterval(timers, intervalId)
    /\ intervalId' = 0
    /\ isMonitoring' = isMonitoring
    /\ calls' = UntilThrow(notifyMonitoringSubscribers(monitoringSubscribers, isMonitoring))
    /\ lastOp' = Op("stop", "", "")
    /\ returned' = <<>>
    /\ UNCHANGED <<currentNetwork, lastStarted, storeVars, hubVars, tasks, now, logged, singleVars>>

\* NetworkService.stopMonitoring -> MonitoringManager.stopMonitoring.
StopMonitoring ==
    /\ timers' = clearInterval(timers, intervalId)
    /\ intervalId' = 0
    /\ isMonitoring' = FALSE
    /\ calls' = UntilThrow(notifyMonitoringSubscribers(monitoringSubscribers, FALSE))
    /\ lastOp' = Op("stop", "", "")
    /\ returned' = <<>>
    /\ UNCHANGED <<currentNetwork, lastStarted, storeVars, hubVars, tasks, now, logged, singleVars>>

Task(pc, net, snap) == [pc |-> pc, net |-> net, snap |-> snap]

\* A timer fires: the interval callback starts checkNetwork(currentNetwork)
\* and is suspended at `await mockPing()`.
TimerFire(maxTicks) ==
    /\ timers # {}
    /\ now < maxTicks
    /\ BagCardinality(tasks) < MaxInflight
    /\ now' = now + 1
    /\ tasks' = IF currentNetwork = "" THEN tasks
                ELSE tasks (+) SetToBag({Task("ping", currentNetwork, <<>>)})
    /\ calls' = <<>>
    /\ lastOp' = Op("tick", "", "")
    /\ returned' = <<>>
    /\ UNCHANGED <<schedulerVars, storeVars, hubVars, logged, singleVars>>

\* Faulty variant of PingDone: a failed measurement clears the timer and
\* leaves the scheduler Idle.
PingDoneFailureStops(pings) ==
    \E t \in BagToSet(tasks) : \E pingTime \in pings :
        LET result == checkNetwork(t.net, pingTime, now)
            snapshotsLength == getSnapshotsLength(snapshots, currentNetwork)
        IN  /\ t.pc = "ping"
            /\ IF speedTestDue(snapshotsLength)
               THEN /\ tasks' = (tasks (-) SetToBag({t}))
                                (+) SetToBag({Task("speed", t.net, <<result>>)})
                    /\ calls' = <<>>
                    /\ UNCHANGED storeVars
               ELSE /\ tasks' = tasks (-) SetToBag({t})
                    /\ addSnapshot(result)
            /\ lastOp' = Op("pingDone", "",
                            IF speedTestDue(snapshotsLength) THEN "" ELSE OrDefault(t.net))
            /\ returned' = <<>>
            /\ isMonitoring' = (isMonitoring /\ pingTime >= 0)
            /\ timers' = IF pingTime >= 0 THEN timers ELSE {}
            /\ intervalId' = IF pingTime >= 0 THEN intervalId ELSE 0
            /\ UNCHANGED <<currentNetwork, lastStarted, hubVars, now, logged, singleVars>>

\* The latency measurement returns: checkNetwork builds the snapshot, the
\* callback reads the series length of the CURRENT network and either
\* appends the snapshot or is suspended at `await runSpeedTest(result)`.
PingDone(pings) ==
    \E t \in BagToSet(tasks) : \E pingTime \in pings :
        LET result == checkNetwork(t.net, pingTime, now)
            snapshotsLength == getSnapshotsLength(snapshots, currentNetwork)
        IN  /\ t.pc = "ping"
            /\ IF speedTestDue(snapshotsLength)
               THEN /\ tasks' = (tasks (-) SetToBag({t}))
                                (+) SetToBag({Task("speed", t.net, <<result>>)})
                    /\ calls' = <<>>
                    /\ UNCHANGED storeVars
               ELSE /\ tasks' = tasks (-) SetToBag({t})
                    /\ addSnapshot(result)
            /\ lastOp' = Op("pingDone", "",
                            IF speedTestDue(snapshotsLength) THEN "" ELSE OrDefault(t.net))
            /\ returned' = <<>>
            /\ UNCHANGED <<schedulerVars, hubVars, now, logged, singleVars>>

\* Faulty variant of SpeedDone: the interval callback ends after the
\* throughput measurement without calling addSnapshot.
SpeedDoneLost(speeds) ==
    \E t \in BagToSet(tasks) : \E speed \in speeds :
        /\ t.pc = "speed"
        /\ tasks' = tasks (-) SetToBag({t})
        /\ calls' = <<>>
        /\ lastOp' = Op("speedDone", "", "")
        /\ returned' = <<>>
        /\ UNCHANGED <<schedulerVars, storeVars, hubVars, now, logged, singleVars>>

\* The throughput measurement returns: the snapshot with speeds is appended.
SpeedDone(speeds) ==
    \E t \in BagToSet(tasks) : \E speed \in speeds :
        /\ t.pc = "speed"
        /\ tasks' = tasks (-) SetToBag({t})
        /\ addSnapshot(runSpeedTest(t.snap[1], speed))
        /\ lastOp' = Op("speedDone", "", OrDefault(t.net))
        /\ returned' = <<>>
        /\ UNCHANGED <<schedulerVars, hubVars, now, logged, singleVars>>

\* addSnapshot of the one-class NetworkMonitor: the snapshot is pushed to the
\* array of the network that is current at the push, whatever its
\* networkName; then notifySubscribers() calls the observers of that network.
\* (No saveMetric here; the stats observers are called per key of their map.)
monoAddSnapshot(snapshot) ==
    /\ snapshots' = [snapshots EXCEPT ![currentNetwork] = pushBounded(@, snapshot)]
    /\ arrived' = [EnsureKey(arrived, currentNetwork) EXCEPT
                      ![currentNetwork] = Append(@, snapshot)]
    /\ saves' = saves
    /\ calls' = UntilThrow(notifySubscribers(subscribers, snapshots', currentNetwork))

\* The one-class NetworkMonitor, latency measurement returns: checkNetwork
\* stamps the snapshot with the network that is current now and, when that
\* network's series holds a multiple of 5 samples, is suspended at
\* `await mockSpeedTest()`; otherwise the interval callback appends.
MonoPingDone(pings) ==
    \E t \in BagToSet(tasks) : \E pingTime \in pings :
        LET snapshot == checkNetwork(currentNetwork, pingTime, now)
            due == /\ currentNetwork \in DOMAIN snapshots
                   /\ speedTestDue(Len(snapshots[currentNetwork]))
        IN  /\ t.pc = "ping"
            /\ IF due
               THEN /\ tasks' = (tasks (-) SetToBag({t}))
                                (+) SetToBag({Task("speed", t.net, <<snapshot>>)})
                    /\ calls' = <<>>
                    /\ UNCHANGED storeVars
               ELSE /\ tasks' = tasks (-) SetToBag({t})
                    /\ monoAddSnapshot(snapshot)
            /\ lastOp' = Op("monoPingDone", "", IF due THEN "" ELSE currentNetwork)
            /\ returned' = <<>>
            /\ UNCHANGED <<schedulerVars, hubVars, now, logged, singleVars>>

\* The one-class NetworkMonitor, throughput measurement returns: checkNetwork
\* returns the snapshot with speeds and the interval callback appends it.
MonoSpeedDone(speeds) ==
    \E t \in BagToSet(tasks) : \E speed \in speeds :
        /\ t.pc = "speed"
        /\ tasks' = tasks (-) SetToBag({t})
        /\ monoAddSnapshot(runSpeedTest(t.snap[1], speed))
        /\ lastOp' = Op("monoSpeedDone", "", currentNetwork)
        /\ returned' = <<>>
        /\ UNCHANGED <<schedulerVars, hubVars, now, logged, singleVars>>

\* The throughput measurement rejects: `await this.runSpeedTest(result)`
\* throws in the interval callback, which ends without calling addSnapshot.
SpeedFail ==
    \E t \in BagToSet(tasks) :
        /\ t.pc = "speed"
        /\ tasks' = tasks (-) SetToBag({t})
        /\ calls' = <<>>
        /\ lastOp' = Op("speedFail", "", OrDefault(t.net))
        /\ returned' = <<>>
        /\ UNCHANGED <<schedulerVars, storeVars, hubVars, now, logged, singleVars>>

\* A saveMetric promise settles; the catch handler of addSnapshot logs a
\* rejection with console.error.
SaveSettled(outcome) ==
    \E snapshot \in BagToSet(saves) :
        /\ saves' = saves (-) SetToBag({snapshot})
        /\ logged' = IF outcome = "rejected" THEN logged + 1 ELSE logged
        /\ calls' = <<>>
        /\ lastOp' = Op(IF outcome = "rejected" THEN "saveRejected" ELSE "saveResolved",
                        "", OrDefault(snapshot.networkName))
        /\ returned' = <<>>
        /\ UNCHANGED <<schedulerVars, snapshots, arrived, hubVars, tasks, now, singleVars>>

\* ---------------------------------------------------------- subscriptions

\* An unsubscribe function: the closure over the callback and the key.
Handle(kind, cb, name, id) == [kind |-> kind, cb |-> cb, name |-> name, id |-> id]

\* A new handle may be handed out while fewer than MaxSubs exist.
CanHold(h, maxSubs) == h \in handles \/ Cardinality(handles) < maxSubs

\* Each subscribeToStats call creates a new closure.
FreshId == CHOOSE id \in 1..(Cardinality(handles) + 1) :
               \A h \in handles : h.id # id

\* The registrations after SnapshotManager.subscribe(callback, name).
subscribeRegs(subs, name, reg) ==
    [EnsureKey(subs, name) EXCEPT ![name] = SetAdd(@, reg)]

\* The invocations SnapshotManager.subscribe makes on registration: none.
subscribeCalls(snaps, cb, name) == <<>>

\* NetworkService.subscribe -> NetworkMonitor.subscribe -> SnapshotManager.subscribe.
Subscribe(cb, networkName, maxSubs) ==
    LET name == OrDefault(networkName)
        h == Handle("series", cb, name, 0)
    IN  /\ CanHold(h, maxSubs)
        /\ subscribers' = subscribeRegs(subscribers, name, SeriesReg(cb))
        /\ handles' = handles \cup {h}
        /\ calls' = subscribeCalls(snapshots, cb, name)
        /\ lastOp' = Op("subscribe", cb, name)
        /\ returned' = <<>>
        /\ UNCHANGED <<schedulerVars, storeVars, monitoringSubscribers,
                       statsSubscribers, serviceStatsSubscribers, tasks, now, logged, singleVars>>

\* Faulty variant of subscribeToStatsCalls: no initial stats are sent.
subscribeToStatsCallsNone(snaps, cb, name) == <<>>

\* The invocations NetworkService.subscribeToStats makes on registration.
subscribeToStatsCalls(snaps, cb, name) ==
    <<StatsCall(cb, serviceCalculateStats(snaps, name))>>

\* NetworkService.subscribeToStats: registers the callback, sends the initial
\* stats, and subscribes a closure to the series of the key.
SubscribeToStats(cb, networkName, maxSubs) ==
    LET name == OrDefault(networkName)
        h == Handle("stats", cb, name, FreshId)
        initial == subscribeToStatsCalls(snapshots, cb, name)
    IN  /\ Cardinality(handles) < maxSubs
        /\ serviceStatsSubscribers' = subscribeRegs(serviceStatsSubscribers, name, cb)
        /\ calls' = initial
        /\ IF Throws(initial)
           THEN \* the initial call throws: no closure is subscribed, nothing is returned
                UNCHANGED <<subscribers, handles>>
           ELSE /\ subscribers' = subscribeRegs(subscribers, name, StatsReg(cb, h.id))
                /\ handles' = handles \cup {h}
        /\ lastOp' = Op("subscribeToStats", cb, name)
        /\ returned' = <<>>
        /\ UNCHANGED <<schedulerVars, storeVars, monitoringSubscribers,
                       statsSubscribers, tasks, now, logged, singleVars>>

\* NetworkService.onMonitoringChange -> MonitoringManager.onMonitoringChange.
OnMonitoringChange(cb, maxSubs) ==
    LET h == Handle("monitoring", cb, "", 0)
    IN  /\ CanHold(h, maxSubs)
        /\ monitoringSubscribers' = SetAdd(monitoringSubscribers, cb)
        /\ handles' = handles \cup {h}
        /\ calls' = <<>>
        /\ lastOp' = Op("onMonitoringChange", cb, "")
        /\ returned' = <<>>
        /\ UNCHANGED <<schedulerVars, storeVars, subscribers, statsSubscribers,
                       serviceStatsSubscribers, tasks, now, logged, singleVars>>

\* Faulty variant of deleteReg: the unsubscribe function deletes nothing.
deleteRegNothing(m, name, x) == m

\* `const subs = map.get(name); if (subs) subs.delete(x)`.
deleteReg(m, name, x) ==
    IF name \in DOMAIN m THEN [m EXCEPT ![name] = SetDelete(@, x)] ELSE m

\* An unsubscribe function handed out earlier is called.
Unsubscribe(h) ==
    /\ h \in handles
    /\ subscribers' =
          IF h.kind = "series" THEN deleteReg(subscribers, h.name, SeriesReg(h.cb))
          ELSE IF h.kind = "stats" THEN deleteReg(subscribers, h.name, StatsReg(h.cb, h.id))
          ELSE subscribers
    /\ serviceStatsSubscribers' =
          IF h.kind = "stats" THEN deleteReg(serviceStatsSubscribers, h.name, h.cb)
          ELSE serviceStatsSubscribers
    /\ monitoringSubscribers' =
          IF h.kind = "monitoring" THEN SetDelete(monitoringSubscribers, h.cb)
          ELSE monitoringSubscribers
    /\ calls' = <<>>
    /\ lastOp' = Op("unsubscribe", h.cb, h.name)
    /\ returned' = <<>>
    /\ UNCHANGED <<schedulerVars, storeVars, statsSubscribers, handles, tasks, now, logged, singleVars>>

\* ----------------------------------------------- single-series NetworkService
\* The NetworkService of networkService.ts keeps one series in `data` and its
\* observers in two arrays; intervalId and isMonitoring are its own fields.

\* The snapshot captureSnapshot builds once pingServer has returned.
captureSnapshot(pingTime, online, time) ==
    [timestamp |-> time, pingTime |-> pingTime,
     status |-> captureSnapshotStatus(pingTime, online), online |-> online]

\* `data.push(snapshot); if (data.length > maxDataPoints) data = data.slice(...)`.
singlePush(d, snapshot) == LastN(Append(d, snapshot), maxDataPoints)

\* The private calculateStats of the single-series NetworkService.
singleCalculateStats(d, online, time) ==
    LET pingValues == SelectSeq([i \in 1..Len(d) |-> d[i].pingTime], LAMBDA p : p >= 0)
        lost == Len(d) - Len(pingValues)
    IN  IF Len(d) = 0
        THEN [min |-> 0, max |-> 0, avg |-> ZeroRatio, currentPing |-> 0,
              lastUpdated |-> time, packetLoss |-> NoLoss, status |-> "unknown"]
        ELSE [min |-> IF Len(pingValues) > 0 THEN SeqMin(pingValues) ELSE 0,
              max |-> IF Len(pingValues) > 0 THEN SeqMax(pingValues) ELSE 0,
              avg |-> IF Len(pingValues) > 0
                      THEN Ratio(SeqSum(pingValues), Len(pingValues)) ELSE ZeroRatio,
              currentPing |-> d[Len(d)].pingTime,
              lastUpdated |-> time,
              packetLoss |-> IF lost = 0 THEN NoLoss ELSE [lost |-> lost, of |-> Len(d)],
              status |-> captureSnapshotStatus(d[Len(d)].pingTime, online)]

\* Faulty variant of singleNotifySubscribers: the stats observers are left out.
singleNotifySubscribersSeriesOnly(subs, statsSubs, d, online, time) ==
    [i \in 1..Len(subs) |-> SeriesCall(subs[i], d)]

\* The private notifySubscribers: a copy of the series to every series
\* observer, then the stats to every stats observer.
singleNotifySubscribers(subs, statsSubs, d, online, time) ==
    [i \in 1..Len(subs) |-> SeriesCall(subs[i], d)]
    \o [i \in 1..Len(statsSubs) |->
            StatsCall(statsSubs[i], singleCalculateStats(d, online, time))]

\* The captureSnapshot calls made so far: those that pushed and those in flight.
CapturesStarted == Len(GetOrEmpty(arrived, "data")) + BagCardinality(tasks)

\* startMonitoring: returns at once when monitoring; else a first
\* captureSnapshot is started and the timer is set.
SingleStartMonitoring(maxCaptures) ==
    /\ isMonitoring \/ CapturesStarted < maxCaptures
    /\ IF isMonitoring
       THEN UNCHANGED <<isMonitoring, tasks, intervalId, timers>>
       ELSE /\ isMonitoring' = TRUE
            /\ tasks' = tasks (+) SetToBag({Task("capture", "", <<>>)})
            /\ intervalId' = FreshTimer(timers)
            /\ timers' = timers \cup {intervalId'}
    /\ calls' = <<>>
    /\ lastOp' = Op("singleStart", "", "")
    /\ returned' = <<>>
    /\ UNCHANGED <<currentNetwork, lastStarted, storeVars, hubVars, now, logged, singleVars>>

\* stopMonitoring of the single-series NetworkService.
SingleStopMonitoring ==
    /\ timers' = clearInterval(timers, intervalId)
    /\ intervalId' = 0
    /\ isMonitoring' = FALSE
    /\ calls' = <<>>
    /\ lastOp' = Op("singleStop", "", "")
    /\ returned' = <<>>
    /\ UNCHANGED <<currentNetwork, lastStarted, storeVars, hubVars, tasks, now, logged,
                   singleVars>>

\* The timer fires: captureSnapshot is started and suspended at pingServer.
SingleTimerFire(maxCaptures) ==
    /\ timers # {}
    /\ CapturesStarted < maxCaptures
    /\ now' = now + 1
    /\ tasks' = tasks (+) SetToBag({Task("capture", "", <<>>)})
    /\ calls' = <<>>
    /\ lastOp' = Op("singleTick", "", "")
    /\ returned' = <<>>
    /\ UNCHANGED <<schedulerVars, storeVars, hubVars, logged, singleVars>>

\* pingServer returns: the snapshot is pushed, the series is cut to its last
\* 100 and the observers are notified.
SingleCaptureDone(pings) ==
    \E t \in BagToSet(tasks) : \E pingTime \in pings : \E online \in BOOLEAN :
        /\ t.pc = "capture"
        /\ tasks' = tasks (-) SetToBag({t})
        /\ singleData' = singlePush(singleData, captureSnapshot(pingTime, online, now))
        /\ arrived' = [EnsureKey(arrived, "data") EXCEPT
                          !["data"] = Append(@, captureSnapshot(pingTime, online, now))]
        /\ calls' = singleNotifySubscribers(dataSubscribers, dataStatsSubscribers,
                                             singleData', online, now)
        /\ lastOp' = Op("captureDone", "", "")
        /\ returned' = <<>>
        /\ UNCHANGED <<schedulerVars, snapshots, saves, hubVars, now, logged,
                       dataSubscribers, dataStatsSubscribers>>

\* subscribe: the callback is pushed and called at once with a copy of the series.
SingleSubscribe(cb, maxSubs) ==
    /\ Len(dataSubscribers) + Len(dataStatsSubscribers) < maxSubs
    /\ dataSubscribers' = Append(dataSubscribers, cb)
    /\ handles' = handles \cup {Handle("data", cb, "", 0)}
    /\ calls' = <<SeriesCall(cb, singleData)>>
    /\ lastOp' = Op("singleSubscribe", cb, "")
    /\ returned' = <<>>
    /\ UNCHANGED <<schedulerVars, storeVars, monitoringSubscribers, subscribers,
                   statsSubscribers, serviceStatsSubscribers, tasks, now, logged,
                   singleData, dataStatsSubscribers>>

\* subscribeToStats: the callback is pushed and called at once with the stats.
SingleSubscribeToStats(cb, maxSubs) ==
    \E online \in BOOLEAN :
        /\ Len(dataSubscribers) + Len(dataStatsSubscribers) < maxSubs
        /\ dataStatsSubscribers' = Append(dataStatsSubscribers, cb)
        /\ handles' = handles \cup {Handle("dataStats", cb, "", 0)}
        /\ calls' = <<StatsCall(cb, singleCalculateStats(singleData, online, now))>>
        /\ lastOp' = Op("singleSubscribeToStats", cb, "")
        /\ returned' = <<>>
        /\ UNCHANGED <<schedulerVars, storeVars, monitoringSubscribers, subscribers,
                       statsSubscribers, serviceStatsSubscribers, tasks, now, logged,
                       singleData, dataSubscribers>>

\* An unsubscribe function of the single-series NetworkService:
\* `subscribers = subscribers.filter(cb => cb !== callback)`.
SingleUnsubscribe(h) ==
    /\ h \in handles
    /\ h.kind \in {"data", "dataStats"}
    /\ dataSubscribers' = IF h.kind = "data" THEN SetDelete(dataSubscribers, h.cb)
                          ELSE dataSubscribers
    /\ dataStatsSubscribers' = IF h.kind = "dataStats"
                               THEN SetDelete(dataStatsSubscribers, h.cb)
                               ELSE dataStatsSubscribers
    /\ calls' = <<>>
    /\ lastOp' = Op("singleUnsubscribe", h.cb, "")
    /\ returned' = <<>>
    /\ UNCHANGED <<schedulerVars, storeVars, hubVars, tasks, now, logged, singleData>>

\* clearData: `this.data = []; this.notifySubscribers()`.
ClearData ==
    \E online \in BOOLEAN :
        /\ singleData' = <<>>
        /\ calls' = singleNotifySubscribers(dataSubscribers, dataStatsSubscribers,
                                             singleData', online, now)
        /\ lastOp' = Op("clearData", "", "")
        /\ returned' = <<>>
        /\ UNCHANGED <<schedulerVars, storeVars, hubVars, tasks, now, logged,
                       dataSubscribers, dataStatsSubscribers>>

\* ------------------------------------------------------------------ queries

\* An array a caller holds: the store's own array of a key, which later
\* pushes and shifts change in place, or an array of its own.
ArrayRef(key) == [ref |-> key, items |-> <<>>]
OwnArray(items) == [ref |-> "", items |-> items]
Contents(array, snaps) == IF array.ref = "" THEN array.items ELSE snaps[array.ref]

\* `return this.snapshots.get(name) || []`.
getSnapshotsArray(snaps, networkName) ==
    IF OrDefault(networkName) \in DOMAIN snaps
    THEN ArrayRef(OrDefault(networkName)) ELSE OwnArray(<<>>)

\* NetworkService.getSnapshots(networkName), called by a component.
GetSnapshots(networkName) ==
    /\ returned' = <<getSnapshotsArray(snapshots, networkName)>>
    /\ calls' = <<>>
    /\ lastOp' = Op("getSnapshots", "", OrDefault(networkName))
    /\ UNCHANGED <<schedulerVars, storeVars, hubVars, tasks, now, logged, singleVars>>

\* SnapshotManager.networkList: a fixed array, never written.
networkList == <<"Home WiFi", "Office Network", "Mobile Hotspot">>

\* NetworkService.getNetworks() -> SnapshotManager.getNetworks(): the list.
GetNetworks ==
    /\ returned' = <<networkList>>
    /\ calls' = <<>>
    /\ lastOp' = Op("getNetworks", "", "")
    /\ UNCHANGED <<schedulerVars, storeVars, hubVars, tasks, now, logged, singleVars>>

\* NetworkService.calculateStats(networkName), called by a component.
CalculateStats(networkName) ==
    /\ returned' = <<serviceCalculateStats(snapshots, networkName)>>
    /\ calls' = <<>>
    /\ lastOp' = Op("calculateStats", "", OrDefault(networkName))
    /\ UNCHANGED <<schedulerVars, storeVars, hubVars, tasks, now, logged, singleVars>>

\* NetworkService.getHistoricalMetrics(networkName, timeframe).
GetHistoricalMetrics(networkName, timeframe) ==
    /\ returned' = <<getHistoricalMetrics(getSnapshots(snapshots, networkName),
                                           timeframe, now)>>
    /\ calls' = <<>>
    /\ lastOp' = Op("getHistoricalMetrics", timeframe, OrDefault(networkName))
    /\ UNCHANGED <<schedulerVars, storeVars, hubVars, tasks, now, logged, singleVars>>

\* NetworkAnalyzer.getHistoricalMetrics(snapshots, timeframe) on a stored series.
AnalyzerGetHistoricalMetrics(networkName, timeframe) ==
    /\ returned' = <<analyzerGetHistoricalMetrics(getSnapshots(snapshots, networkName),
                                                   timeframe, now)>>
    /\ calls' = <<>>
    /\ lastOp' = Op("analyzerGetHistoricalMetrics", timeframe, OrDefault(networkName))
    /\ UNCHANGED <<schedulerVars, storeVars, hubVars, tasks, now, logged, singleVars>>

\* An hour passes while no timer is active.
HourPasses(maxNow) ==
    /\ timers = {}
    /\ now < maxNow
    /\ now' = now + (timeframeMs("hour") \div MonitoringPeriodMs)
    /\ calls' = <<>>
    /\ lastOp' = Op("hourPasses", "", "")
    /\ returned' = <<>>
    /\ UNCHANGED <<schedulerVars, storeVars, hubVars, tasks, logged, singleVars>>

\* ----------------------------------------------------------- specifications

\* Spec: every public operation and every step of a tick, in any order.
Start == \E networkName \in NetworkArgs : StartMonitoring(networkName)
Stop == StopMonitoring
Tick == TimerFire(MaxTicks)
Ping == PingDone(PingValues)
Speed == SpeedDone(SpeedResults)
Sub == \E cb \in Callbacks : \E networkName \in NetworkArgs :
           Subscribe(cb, networkName, MaxSubs)
SubStats == \E cb \in Callbacks : \E networkName \in NetworkArgs :
                SubscribeToStats(cb, networkName, MaxSubs)
SubMon == \E cb \in MonCallbacks : OnMonitoringChange(cb, MaxSubs)
Unsub == \E h \in handles : Unsubscribe(h)

Next == Start \/ Stop \/ Tick \/ Ping \/ Speed \/ Sub \/ SubStats \/ SubMon \/ Unsub

Spec == Init /\ [][Next]_vars

\* A measurement that returns before the next timer period: no two ticks overlap.
TimerFireSeq(maxTicks) == tasks = EmptyBag /\ TimerFire(maxTicks)

\* Monitoring is started once and never stopped or switched.
StartOnce == timers = {} /\ \E networkName \in NetworkArgs : StartMonitoring(networkName)

\* SpecHub: observers come and go while one network is sampled tick by tick.
HubTick == TimerFireSeq(HubTicks)
HubPing == PingDone(HubPingValues)
HubSub == \E cb \in HubCallbacks : \E networkName \in NetworkArgs :
              Subscribe(cb, networkName, HubSubs)
HubSubStats == \E cb \in HubCallbacks : \E networkName \in NetworkArgs :
                   SubscribeToStats(cb, networkName, HubSubs)

NextHub == StartOnce \/ HubTick \/ HubPing \/ Speed \/ HubSub \/ HubSubStats \/ Unsub

SpecHub == Init /\ [][NextHub]_vars

\* SpecClassify: the scheduler with latencies around every threshold.
ClassifyTick == TimerFireSeq(ClassifyTicks)
ClassifyPing == PingDone(WidePingValues)
ClassifySpeed == SpeedDone(WideSpeedResults)

NextClassify == StartOnce \/ ClassifyTick \/ ClassifyPing \/ ClassifySpeed

SpecClassify == Init /\ [][NextClassify]_vars

\* SpecLong: one network sampled tick by tick beyond the capacity of its series.
LongTick == TimerFireSeq(LongTicks)

NextLong == StartOnce \/ LongTick \/ Ping \/ Speed

SpecLong == Init /\ [][NextLong]_vars

\* SpecFrame: network A sampled up to capacity while monitoring is started and
\* stopped and an observer comes and goes.
FrameTicks == 101
FrameSubs == 1

NextFrame ==
    \/ StartMonitoring("A")
    \/ Stop
    \/ TimerFireSeq(FrameTicks)
    \/ Ping
    \/ Speed
    \/ \E cb \in Callbacks : Subscribe(cb, "A", FrameSubs)
    \/ Unsub

SpecFrame == Init /\ [][NextFrame]_vars

\* SpecLive: one network sampled by ticks that may overlap, with observers
\* coming and going. mockPing and mockSpeedTest always resolve, so a
\* suspended interval callback is eventually resumed.
LiveTicks == 2
LiveSubs == 1

NextLive ==
    \/ StartOnce
    \/ TimerFire(LiveTicks)
    \/ Ping
    \/ Speed
    \/ \E cb \in HubCallbacks : Subscribe(cb, "A", LiveSubs)
    \/ Unsub

SpecLive == Init /\ [][NextLive]_vars /\ WF_vars(Ping) /\ WF_vars(Speed)

\* SpecLoss: one network sampled beyond the stats window, with timeouts, and
\* its stats queried at any point.
LossTick == TimerFireSeq(LossTicks)
LossPing == PingDone(HubPingValues)
LossStats == \E networkName \in NetworkArgs : CalculateStats(networkName)

NextLoss == StartOnce \/ LossTick \/ LossPing \/ Speed \/ LossStats

SpecLoss == Init /\ [][NextLoss]_vars

\* SpecMetrics: the historical metrics and the stats of a series the scheduler has stored
\* for the default network before monitoring was stopped.
\* The series the ticks 1..Len(pings) store when tick i measures pings[i].
\* (Tick i finds i - 1 stored snapshots, fewer than the capacity.)
\* The throughput measured at tick i is i - 1 down and 2 * i up, so that the
\* first measurement is 0 and no two measurements are equal.
StoredBy(pings) ==
    "default" :>
        [i \in 1..Len(pings) |->
            LET result == checkNetwork("default", pings[i], i)
            IN  IF speedTestDue(i - 1)
                THEN runSpeedTest(result, [download |-> i - 1, upload |-> 2 * i])
                ELSE result]

\* The measured latencies: any mix of up to MixedLen values; 1, 2, ..., n;
\* and k times 0 followed by 5s, up to MetricsLen values.
MetricsPings ==
    UNION {[1..n -> MixedPingValues] : n \in 0..MixedLen}
    \cup {[i \in 1..n |-> i] : n \in 0..MetricsLen}
    \cup {[i \in 1..n |-> IF i <= k THEN 0 ELSE 5] :
              <<n, k>> \in {<<n, k>> \in (1..MetricsLen) \X (0..MetricsLen) : k <= n}}

InitMetrics ==
    \E pings \in MetricsPings :
        /\ intervalId = 0
        /\ timers = {}
        /\ currentNetwork = "default"
        /\ isMonitoring = FALSE
        /\ monitoringSubscribers = <<>>
        /\ snapshots = StoredBy(pings)
        /\ subscribers = <<>>
        /\ statsSubscribers = <<>>
        /\ serviceStatsSubscribers = <<>>
        /\ tasks = EmptyBag
        /\ now = Len(pings)
        /\ handles = {}
        /\ calls = <<>>
        /\ lastOp = Op("stop", "", "")
        /\ arrived = snapshots
        /\ lastStarted = "default"
        /\ saves = SetToBag({snapshots["default"][i] : i \in 1..Len(pings)})
        /\ logged = 0
        /\ returned = <<>>
        /\ singleData = <<>>
        /\ dataSubscribers = <<>>
        /\ dataStatsSubscribers = <<>>

Metrics == \E networkName \in NetworkArgs : \E timeframe \in Timeframes :
               GetHistoricalMetrics(networkName, timeframe)
AnalyzerMetrics == \E networkName \in NetworkArgs : \E timeframe \in Timeframes :
                       AnalyzerGetHistoricalMetrics(networkName, timeframe)
MetricsHour == HourPasses(MetricsLen + 1)

NextMetrics == Metrics \/ AnalyzerMetrics \/ MetricsHour
               \/ \E networkName \in NetworkArgs : CalculateStats(networkName)

SpecMetrics == InitMetrics /\ [][NextMetrics]_vars

\* SpecFault: the throughput measurement may reject, and every save may
\* resolve, reject or stay pending.
FaultTick == TimerFireSeq(FaultTicks)
FaultSub == \E cb \in Callbacks : \E networkName \in NetworkArgs :
                Subscribe(cb, networkName, FaultSubs)
SaveResolved == SaveSettled("resolved")
SaveRejected == SaveSettled("rejected")

NextFault == StartOnce \/ Stop \/ FaultTick \/ Ping \/ Speed \/ SpeedFail
             \/ SaveResolved \/ SaveRejected \/ FaultSub

SpecFault == Init /\ [][NextFault]_vars

\* SpecRoute: one of three networks is sampled while series observers of
\* the three keys come and go and the stored arrays and the network list
\* are fetched.
RouteStart == timers = {} /\ \E networkName \in RouteNetworkArgs : StartMonitoring(networkName)
RouteTick == TimerFireSeq(RouteTicks)
RouteSub == \E cb \in HubCallbacks : \E networkName \in RouteNetworkArgs :
                Subscribe(cb, networkName, RouteSubs)
RouteGet == \E networkName \in RouteNetworkArgs : GetSnapshots(networkName)

NextRoute == RouteStart \/ RouteTick \/ Ping \/ Speed \/ RouteSub \/ Unsub \/ RouteGet
             \/ GetNetworks

SpecRoute == Init /\ [][NextRoute]_vars

\* SpecThrow: observers that throw among observers that return.
ThrowTick == TimerFireSeq(ThrowTicks)
ThrowSub == \E cb \in ThrowCallbacks : \E networkName \in NetworkArgs :
                Subscribe(cb, networkName, ThrowSubs)
ThrowSubMon == \E cb \in ThrowMonCallbacks : OnMonitoringChange(cb, ThrowSubs)

NextThrow == Start \/ Stop \/ ThrowTick \/ Ping \/ Speed \/ ThrowSub \/ ThrowSubMon \/ Unsub

SpecThrow == Init /\ [][NextThrow]_vars

\* SpecAbort: monitoring is started and stopped while a monitoring-state
\* observer that throws on true comes and goes.
AbortTicks == 1
AbortSubs == 2

NextAbort ==
    \/ Start
    \/ Stop
    \/ TimerFireSeq(AbortTicks)
    \/ Ping
    \/ Speed
    \/ \E cb \in AbortMonCallbacks : OnMonitoringChange(cb, AbortSubs)
    \/ Unsub

SpecAbort == Init /\ [][NextAbort]_vars

\* SpecMono: the one-class NetworkMonitor (checkNetwork and addSnapshot read
\* this.currentNetwork), started and switched while ticks are in flight. Its
\* startMonitoring leaves the same state as the modular one.
MonoTicks == 2

NextMono ==
    \/ Start
    \/ TimerFire(MonoTicks)
    \/ MonoPingDone(PingValues)
    \/ MonoSpeedDone(SpeedResults)

SpecMono == Init /\ [][NextMono]_vars

\* SpecObs: series and stats observers of network A and monitoring observers
\* subscribe and unsubscribe while monitoring is started, switched and
\* stopped and a network is sampled.
NextObs ==
    \/ Start
    \/ Stop
    \/ TimerFireSeq(ObsTicks)
    \/ Ping
    \/ Speed
    \/ \E cb \in HubCallbacks : Subscribe(cb, "A", ObsSubs)
    \/ \E cb \in Callbacks : SubscribeToStats(cb, "A", ObsSubs)
    \/ \E cb \in ObsMonCallbacks : OnMonitoringChange(cb, ObsSubs)
    \/ Unsub

SpecObs == Init /\ [][NextObs]_vars

\* SpecSingle: the single-series NetworkService with its observers.
SingleStart == SingleStartMonitoring(SingleCaptures)
SingleStop == SingleStopMonitoring
SingleTick == SingleTimerFire(SingleCaptures)
SingleCapture == SingleCaptureDone(PingValues)
SingleSub == \E cb \in Callbacks : SingleSubscribe(cb, SingleSubs)
SingleSubStats == \E cb \in Callbacks : SingleSubscribeToStats(cb, SingleSubs)
SingleUnsub == \E h \in handles : SingleUnsubscribe(h)

NextSingle == SingleStart \/ SingleStop \/ SingleTick \/ SingleCapture
              \/ SingleSub \/ SingleSubStats \/ SingleUnsub \/ ClearData

SpecSingle == Init /\ [][NextSingle]_vars

\* ------------------------------------------------------------------ claims

Keys(m) == DOMAIN m
Samples(m) == {m[k][i] : <<k, i>> \in UNION {{k} \X (1..Len(m[k])) : k \in DOMAIN m}}
StatsCalls(cs) == SelectSeq(cs, LAMBDA c : c.kind = "stats")
Appended == lastOp.op \in {"pingDone", "speedDone"} /\ lastOp.name # ""

\* C1 (SpecLong): a series never holds more than 100 samples, and it is always
\* the most recently appended samples (at most 100 of them) in arrival order.
C1_BoundedFifo ==
    \A k \in Keys(snapshots) :
        /\ Len(snapshots[k]) <= MaxSnapshots
        /\ snapshots[k] = LastN(GetOrEmpty(arrived, k), MaxSnapshots)

\* More than 100 samples have been appended to a series: the oldest are gone.
C1_Witness ==
    \E k \in Keys(arrived) :
        /\ Len(arrived[k]) > MaxSnapshots
        /\ Len(snapshots[k]) = MaxSnapshots
        /\ snapshots[k][1] = arrived[k][Len(arrived[k]) - MaxSnapshots + 1]

\* C2 (Spec): at most one timer is active; when start(B) returns there is
\* exactly one timer, the scheduler is Running and bound to B; and a tick of
\* that timer measures the network of the last start.
C2_OneTimer ==
    /\ Cardinality(timers) <= 1
    /\ lastOp.op = "start" =>
          /\ Cardinality(timers) = 1
          /\ timers = {intervalId}
          /\ isMonitoring
          /\ currentNetwork = lastOp.name
    /\ lastOp.op = "tick" =>
          \E t \in BagToSet(tasks) : t.pc = "ping" /\ t.net = lastStarted

\* The timer started by start(A) after the default network was sampled ticks.
C2_Witness ==
    /\ lastOp.op = "tick"
    /\ lastStarted = "A"
    /\ "default" \in Keys(arrived)
    /\ \E t \in BagToSet(tasks) : t.pc = "ping" /\ t.net = "A"

\* C3 (Spec), as claimed: while the scheduler is Running on one network, no
\* sample is appended to the series of another network.
C3_NoAppendAfterSwitch ==
    [][\A k \in Keys(arrived') :
          (isMonitoring /\ currentNetwork # k) => arrived'[k] = GetOrEmpty(arrived, k)]_vars

\* C4 (Spec), as claimed: while the scheduler is Idle no sample is appended to
\* any series and no observer is notified of one.
C4_NoAppendWhileIdle ==
    [][(~isMonitoring /\ ~isMonitoring') =>
          /\ arrived' = arrived
          /\ snapshots' = snapshots
          /\ lastOp'.op \in {"pingDone", "speedDone"} => calls' = <<>>]_vars

\* C5 (SpecLong), as claimed: the samples with throughput are exactly those
\* whose arrival number is 1, 6, 11, ...
C5_Cadence ==
    \A k \in Keys(arrived) : \A i \in 1..Len(arrived[k]) :
        hasSpeed(arrived[k][i]) <=> (i - 1) % SpeedTestEvery = 0

\* C6 (SpecHub), as claimed: subscribe on a key that holds data calls the
\* callback exactly once, with the current series, inside the call.
C6_LateSubscriber ==
    (lastOp.op = "subscribe" /\ getSnapshots(snapshots, lastOp.name) # <<>>) =>
        calls = <<SeriesCall(lastOp.cb, getSnapshots(snapshots, lastOp.name))>>

\* C7 (SpecHub): subscribeToStats calls the callback exactly once, with the
\* stats of the series stored for the key; and an append for a key calls,
\* once per stats subscription under that key (and under "default"), the
\* callback with the stats of the series as it is after the append.
C7_ExpectedStatsCalls(key) ==
    LET regs == SelectSeq(GetOrEmpty(subscribers, key), LAMBDA r : r.kind = "stats")
    IN  [i \in 1..Len(regs) |->
            StatsCall(regs[i].cb, calculateStats(GetOrEmpty(snapshots, key)))]

C7_StatsDelivery ==
    /\ lastOp.op = "subscribeToStats" =>
          calls = <<StatsCall(lastOp.cb, calculateStats(GetOrEmpty(snapshots, lastOp.name)))>>
    /\ Appended =>
          StatsCalls(calls) =
              C7_ExpectedStatsCalls(lastOp.name)
              \o (IF lastOp.name # "default" THEN C7_ExpectedStatsCalls("default")
                  ELSE <<>>)

\* An append on a key with a stats subscription delivered the stats of a
\* series of two samples.
C7_Witness ==
    /\ Appended
    /\ Len(snapshots[lastOp.name]) = 2
    /\ StatsCalls(calls) # <<>>
    /\ StatsCalls(calls)[1].stats.currentPing = snapshots[lastOp.name][2].pingTime

\* C8 (SpecClassify), as claimed: the status of every sample built on a tick
\* is good up to 150 ms, warning up to 300 ms, and error above or when the
\* measurement failed.
C8_Classifier ==
    \A s \in Samples(arrived) : s.status = captureSnapshotStatus(s.pingTime, s.online)

\* C9 (SpecClassify): every committed sample has a status in {good, warning,
\* error}, and an unreachable or negative-latency sample has status error.
C9_ConcreteStatus ==
    \A s \in Samples(snapshots) :
        /\ s.status \in {"good", "warning", "error"}
        /\ (~s.online \/ s.pingTime < 0) => s.status = "error"

\* A sample of a timed-out measurement has been committed.
C9_Witness == \E s \in Samples(snapshots) : s.pingTime < 0 /\ ~s.online

\* C10 (SpecHub): the stats of an empty series are unknown with all numbers 0,
\* and the stats of a non-empty series are good, warning or error, never unknown.
C10_UnknownIffEmpty ==
    \A k \in Keys(snapshots) :
        LET stats == calculateStats(snapshots[k])
        IN  /\ snapshots[k] = <<>> =>
                  /\ stats.status = "unknown"
                  /\ stats.currentPing = 0 /\ stats.min = 0 /\ stats.max = 0
                  /\ stats.packetLoss = NoLoss
            /\ stats.status = "unknown" => snapshots[k] = <<>>
            /\ snapshots[k] # <<>> => stats.status \in {"good", "warning", "error"}

\* Stats were delivered for an empty series while another series holds a
\* sample of a timed-out measurement.
C10_Witness ==
    /\ lastOp.op = "subscribeToStats"
    /\ GetOrEmpty(snapshots, lastOp.name) = <<>>
    /\ calls[1].stats.status = "unknown"
    /\ \E s \in Samples(snapshots) : s.pingTime < 0

\* C11 (SpecLoss): the packet loss of a non-empty series is the share of
\* unreachable or negative-latency samples among its last 10 samples (all of
\* them if there are fewer); older samples do not count.
C11_Window(series) ==
    [i \in 1..(IF Len(series) < 10 THEN Len(series) ELSE 10) |->
        series[Len(series) - (IF Len(series) < 10 THEN Len(series) ELSE 10) + i]]

C11_Lost(window) ==
    Cardinality({i \in 1..Len(window) : ~window[i].online \/ window[i].pingTime < 0})

C11_PacketLoss ==
    (lastOp.op = "calculateStats" /\ GetOrEmpty(snapshots, lastOp.name) # <<>>) =>
        LET window == C11_Window(snapshots[lastOp.name])
            packetLoss == returned[1].packetLoss
        IN  /\ packetLoss.of > 0
            /\ packetLoss.lost * Len(window) = C11_Lost(window) * packetLoss.of

\* Eleven samples, the oldest a timeout, and 3 timeouts among the last 10:
\* the packet loss is 3 / 10, that is 30 percent.
C11_Witness ==
    /\ lastOp.op = "calculateStats"
    /\ Len(GetOrEmpty(snapshots, lastOp.name)) = 11
    /\ snapshots[lastOp.name][1].pingTime < 0
    /\ returned[1].packetLoss = [lost |-> 3, of |-> 10]
    /\ (100 * returned[1].packetLoss.lost) \div returned[1].packetLoss.of = 30

\* The in-window samples of the series the last metrics query was about.
InWindow ==
    SelectSeq(GetOrEmpty(snapshots, lastOp.name),
              LAMBDA s : (now - s.timestamp) * MonitoringPeriodMs <= timeframeMs(lastOp.cb))
MetricsQueried == lastOp.op \in {"getHistoricalMetrics", "analyzerGetHistoricalMetrics"}

\* C12 (SpecMetrics), as claimed: the availability is the share of in-window
\* samples that are reachable with a latency of at least 0 and below 300.
C12_Availability ==
    (MetricsQueried /\ InWindow # <<>>) =>
        LET qualify == Len(SelectSeq(InWindow,
                           LAMBDA s : s.online /\ s.pingTime >= 0 /\ s.pingTime < 300))
            availability == returned[1].availabilityPercentage
        IN  availability.num * Len(InWindow) = qualify * availability.den

\* C13 (SpecMetrics), as claimed: p95Ping is the element at index
\* floor(0.95 * n), clamped to n - 1, of the ascending sort of the n
\* non-negative in-window latencies, and 0 when there are none.
C13_P95 ==
    MetricsQueried =>
        LET lat == SelectSeq([i \in 1..Len(InWindow) |-> InWindow[i].pingTime],
                             LAMBDA p : p >= 0)
            n == Len(lat)
            index == IF (95 * n) \div 100 > n - 1 THEN n - 1 ELSE (95 * n) \div 100
            p95 == returned[1].p95Ping
        IN  IF n = 0 THEN p95 = 0
            ELSE /\ Cardinality({i \in 1..n : lat[i] < p95}) <= index
                 /\ Cardinality({i \in 1..n : lat[i] <= p95}) > index
                 /\ \E i \in 1..n : lat[i] = p95

C15_EveryObserverCalled ==
    /\ Appended =>
          Len(calls) = Len(GetOrEmpty(subscribers, lastOp.name))
                       + (IF lastOp.name # "default"
                          THEN Len(GetOrEmpty(subscribers, "default")) ELSE 0)
    /\ lastOp.op = "stop" => Len(calls) = Len(monitoringSubscribers)
    /\ lastOp.op = "start" =>
          /\ Len(calls) = 2 * Len(monitoringSubscribers)
          /\ isMonitoring

\* C16 (SpecFault), as claimed: when the throughput measurement of a tick
\* fails, the latency sample of that tick is appended without throughput.
C16_SampleSurvivesSpeedFailure ==
    [][\A t \in BagToSet(tasks) :
          (t.pc = "speed" /\ lastOp'.op = "speedFail" /\ tasks' = tasks (-) SetToBag({t})) =>
              GetOrEmpty(arrived', OrDefault(t.net))
                  = Append(GetOrEmpty(arrived, OrDefault(t.net)), t.snap[1])]_vars

\* C17 (SpecFault): the step that appends a sample notifies every observer
\* of its key and of "default" while the save of that sample is still
\* pending; and a save that resolves or rejects changes neither the series
\* nor the scheduler nor calls an observer, a rejection adding one log line.
C17_FireAndForget ==
    [][/\ (lastOp'.op \in {"pingDone", "speedDone"} /\ lastOp'.name # "") =>
            LET key == lastOp'.name
                sample == arrived'[key][Len(arrived'[key])]
            IN  /\ snapshots'[key][Len(snapshots'[key])] = sample
                /\ CopiesIn(sample, saves') = CopiesIn(sample, saves) + 1
                /\ Len(calls') = Len(GetOrEmpty(subscribers, key))
                                  + (IF key # "default"
                                     THEN Len(GetOrEmpty(subscribers, "default")) ELSE 0)
                /\ \A i \in 1..Len(calls') :
                      calls'[i].series = snapshots'[IF i <= Len(GetOrEmpty(subscribers, key))
                                                    THEN key ELSE "default"]
       /\ lastOp'.op \in {"saveResolved", "saveRejected"} =>
            /\ snapshots' = snapshots
            /\ arrived' = arrived
            /\ isMonitoring' = isMonitoring /\ timers' = timers /\ tasks' = tasks
            /\ calls' = <<>>
            /\ logged' = logged + (IF lastOp'.op = "saveRejected" THEN 1 ELSE 0)]_vars

\* The save of a stored sample was rejected while the scheduler is Running
\* and an observer is registered; another save is still pending.
C17_Witness ==
    /\ lastOp.op = "saveRejected"
    /\ logged = 1
    /\ isMonitoring
    /\ \E k \in Keys(snapshots) : Len(snapshots[k]) = 2
    /\ \E k \in Keys(subscribers) : subscribers[k] # <<>>
    /\ saves # EmptyBag

\* The series observers registered under a key, as the calls an append makes.
RouteCalls(key) ==
    LET regs == GetOrEmpty(subscribers, key)
    IN  [i \in 1..Len(regs) |-> SeriesCall(regs[i].cb, GetOrEmpty(snapshots, key))]

\* C18 (SpecRoute): an append for key K calls the observers registered
\* under K, then, when K is not "default", those registered under
\* "default", each with the series of its own key, and nobody else.
C18_Routing ==
    Appended =>
        calls = RouteCalls(lastOp.name)
                \o (IF lastOp.name # "default" THEN RouteCalls("default") ELSE <<>>)

\* An append for A with one observer under each of A, "default" and B:
\* two calls are made.
C18_Witness ==
    /\ Appended
    /\ lastOp.name = "A"
    /\ \A k \in {"A", "B", "default"} : Len(GetOrEmpty(subscribers, k)) = 1
    /\ Len(calls) = 2

\* C19 (SpecRoute), as claimed: the series an append for a named network
\* hands to the observers of "default" contains the appended sample.
C19_DefaultSeesSample ==
    (Appended /\ lastOp.name # "default") =>
        \A i \in (Len(GetOrEmpty(subscribers, lastOp.name)) + 1)..Len(calls) :
            \E j \in 1..Len(calls[i].series) :
                calls[i].series[j] = arrived[lastOp.name][Len(arrived[lastOp.name])]

\* C20 (SpecRoute), as claimed: the contents of an array getSnapshots has
\* returned stay what they were, whatever the store does next.
C20_ReturnedIsCopy ==
    [][lastOp.op = "getSnapshots" =>
          Contents(returned[1], snapshots') = Contents(returned[1], snapshots)]_vars

\* C21 (SpecObs): a stop leaves the scheduler Idle with no timer and no timer
\* handle and touches no series; a stop while Idle changes neither the
\* state, nor the handle, nor the timers, nor the current network.
C21_StopIdempotent ==
    [][lastOp'.op = "stop" =>
          /\ ~isMonitoring' /\ intervalId' = 0 /\ timers' = {}
          /\ snapshots' = snapshots
          /\ ~isMonitoring =>
                /\ isMonitoring' = isMonitoring
                /\ intervalId' = intervalId
                /\ timers' = timers
                /\ currentNetwork' = currentNetwork]_vars

\* Monitoring of A was stopped after a sample was stored: the state a stop
\* from Running reaches and a further stop leaves as it is.
C21_Witness ==
    /\ lastOp.op = "stop"
    /\ ~isMonitoring /\ intervalId = 0 /\ timers = {}
    /\ currentNetwork = "A"
    /\ Len(GetOrEmpty(snapshots, "A")) >= 1

\* C22 (SpecObs): isMonitoring changes only in a start or a stop; a stop
\* calls every registered monitoring observer, in registration order, with
\* the state it leaves (false); a start calls each of them with false (its
\* own stop) and then each of them with the state it leaves (true).
C22_TransitionsNotify ==
    [][(isMonitoring' # isMonitoring \/ lastOp'.op \in {"start", "stop"}) =>
          LET n == Len(monitoringSubscribers)
          IN  /\ lastOp'.op \in {"start", "stop"}
              /\ monitoringSubscribers' = monitoringSubscribers
              /\ calls' = (IF lastOp'.op = "start"
                           THEN [i \in 1..n |->
                                   MonitoringCall(monitoringSubscribers[i], FALSE)]
                           ELSE <<>>)
                          \o [i \in 1..n |->
                                 MonitoringCall(monitoringSubscribers[i], isMonitoring')]
              /\ isMonitoring' = (lastOp'.op = "start")]_vars

\* A start with two monitoring observers registered: four calls, the last
\* two with true.
C22_Witness ==
    /\ lastOp.op = "start"
    /\ isMonitoring
    /\ Len(monitoringSubscribers) = 2
    /\ Len(calls) = 4
    /\ calls[3].flag /\ calls[4].flag

RegOf(h) == IF h.kind = "series" THEN SeriesReg(h.cb) ELSE StatsReg(h.cb, h.id)
Registered(h) ==
    IF h.kind = "monitoring"
    THEN \E i \in 1..Len(monitoringSubscribers) : monitoringSubscribers[i] = h.cb
    ELSE \E i \in 1..Len(GetOrEmpty(subscribers, h.name)) :
             subscribers[h.name][i] = RegOf(h)
\* The observer a call went to is registered for the event: under one of
\* the keys for a series or stats call, as a monitoring observer otherwise.
CallRegistered(c, keys) ==
    IF c.kind = "monitoring"
    THEN \E i \in 1..Len(monitoringSubscribers) : monitoringSubscribers[i] = c.cb
    ELSE \E k \in keys : \E i \in 1..Len(GetOrEmpty(subscribers, k)) :
             /\ subscribers[k][i].cb = c.cb
             /\ subscribers[k][i].kind = c.kind

\* C24 (SpecObs): calling an unsubscribe function removes its registration
\* and no other, calls nobody, and changes no registry when the registration
\* is already gone (a second call); and every call a start, a stop or an
\* append makes goes to an observer that is registered when the step begins,
\* for an append under the key of the sample or under "default".
C24_Unsubscribed ==
    [][/\ lastOp'.op = "unsubscribe" =>
            \E h \in handles :
                /\ h.cb = lastOp'.cb /\ h.name = lastOp'.name
                /\ ~Registered(h)'
                /\ DOMAIN subscribers' = DOMAIN subscribers
                /\ \A k \in DOMAIN subscribers :
                      subscribers'[k] =
                          SelectSeq(subscribers[k],
                                    LAMBDA r : ~(h.kind # "monitoring" /\ k = h.name
                                                 /\ r = RegOf(h)))
                /\ monitoringSubscribers' =
                      SelectSeq(monitoringSubscribers,
                                LAMBDA c : ~(h.kind = "monitoring" /\ c = h.cb))
                /\ ~Registered(h) =>
                      /\ subscribers' = subscribers
                      /\ monitoringSubscribers' = monitoringSubscribers
                /\ handles' = handles
                /\ calls' = <<>>
       /\ lastOp'.op \in {"start", "stop", "pingDone", "speedDone"} =>
            \A i \in 1..Len(calls') :
                CallRegistered(calls'[i], {lastOp'.name, "default"})]_vars

\* A series observer of the sampled key has unsubscribed and another is
\* still registered: the append calls the other one only.
C24_Witness ==
    /\ Appended
    /\ calls # <<>>
    /\ \E h \in handles :
          /\ h.kind = "series" /\ h.name = lastOp.name
          /\ ~Registered(h)
          /\ \A i \in 1..Len(calls) : calls[i].cb # h.cb

\* C25 (SpecRoute), as claimed: the networks getNetworks returns are exactly
\* the keys under which the store holds a series.
C25_NetworksAreKeys ==
    lastOp.op = "getNetworks" =>
        {returned[1][i] : i \in 1..Len(returned[1])} = Keys(snapshots)

\* C26 (SpecLoss): a latency measurement that returns the sentinel yields a
\* sample with that negative latency, offline and with status error; the
\* steps of a tick change neither the scheduler state nor its timer; every
\* stored sample with a negative latency has status error; and once
\* started the scheduler stays Running with its timer active.
C26_FailureKeepsLoop ==
    [][/\ lastOp'.op \in {"pingDone", "speedDone"} =>
            /\ isMonitoring' = isMonitoring
            /\ timers' = timers
            /\ intervalId' = intervalId
            /\ \A pingTime \in {p \in HubPingValues : p < 0} :
                  LET result == checkNetwork(currentNetwork, pingTime, now)
                  IN  /\ result.pingTime = pingTime
                      /\ result.status = "error"
                      /\ ~result.online
            /\ lastOp'.name # "" =>
                  LET sample == arrived'[lastOp'.name][Len(arrived'[lastOp'.name])]
                  IN  sample.pingTime < 0 => sample.status = "error"
       /\ lastStarted # "" => (isMonitoring' /\ timers' # {} /\ intervalId' # 0)]_vars

\* Eleven ticks in a row have stored a failed measurement and the timer is
\* still active.
C26_Witness ==
    /\ isMonitoring /\ timers # {}
    /\ \E k \in Keys(arrived) :
          /\ Len(arrived[k]) = LossTicks
          /\ \A i \in 1..Len(arrived[k]) :
                arrived[k][i].pingTime < 0 /\ arrived[k][i].status = "error"

\* The non-negative latencies of a window.
C27_Valid(window) == {window[i].pingTime : i \in {j \in 1..Len(window) : window[j].pingTime >= 0}}

\* C27 (SpecMetrics): for a non-empty series, the min and max calculateStats
\* returns are the smallest and the largest non-negative latency among the
\* last 10 samples (0 and 0 when there is none), and currentPing and status
\* are the latency, negative or not, and the status of the last sample.
C27_MinMaxCurrent ==
    (lastOp.op = "calculateStats" /\ GetOrEmpty(snapshots, lastOp.name) # <<>>) =>
        LET series == snapshots[lastOp.name]
            valid == C27_Valid(C11_Window(series))
            stats == returned[1]
        IN  /\ valid = {} => (stats.min = 0 /\ stats.max = 0)
            /\ valid # {} =>
                  /\ stats.min \in valid /\ \A p \in valid : stats.min <= p
                  /\ stats.max \in valid /\ \A p \in valid : stats.max >= p
            /\ stats.currentPing = series[Len(series)].pingTime
            /\ stats.status = series[Len(series)].status

\* The stats of a series whose last sample is a timeout after two different
\* valid latencies, the larger one first.
C27_Witness ==
    /\ lastOp.op = "calculateStats"
    /\ returned[1].currentPing < 0
    /\ returned[1].status = "error"
    /\ 0 < returned[1].min /\ returned[1].min < returned[1].max
    /\ snapshots[lastOp.name][1].pingTime = returned[1].max

\* The samples of a window that carry both throughput fields.
C28_WithSpeed(window) ==
    {i \in 1..Len(window) :
        window[i].downloadSpeed # <<>> /\ window[i].uploadSpeed # <<>>}

\* C28 (SpecMetrics): the throughput calculateStats returns is that of the
\* last sample among the last 10 that carries both fields, a measured 0
\* included; the fields are absent when no sample of the window carries both.
C28_LatestSpeed ==
    lastOp.op = "calculateStats" =>
        LET window == C11_Window(GetOrEmpty(snapshots, lastOp.name))
            withSpeed == C28_WithSpeed(window)
            stats == returned[1]
        IN  /\ withSpeed = {} =>
                  (stats.downloadSpeed = <<>> /\ stats.uploadSpeed = <<>>)
            /\ withSpeed # {} =>
                  \E i \in withSpeed :
                      /\ \A j \in withSpeed : j <= i
                      /\ stats.downloadSpeed = window[i].downloadSpeed
                      /\ stats.uploadSpeed = window[i].uploadSpeed

\* The stats of a series whose last sample carries no throughput and whose
\* only measured throughput, earlier in the window, is 0 down.
C28_Witness ==
    /\ lastOp.op = "calculateStats"
    /\ Len(GetOrEmpty(snapshots, lastOp.name)) >= 2
    /\ snapshots[lastOp.name][Len(snapshots[lastOp.name])].downloadSpeed = <<>>
    /\ returned[1].downloadSpeed = <<0>>
    /\ returned[1].uploadSpeed = <<2>>

\* The samples of the queried series that are at most the timeframe old.
C29_WindowMs ==
    IF lastOp.cb = "hour" THEN 3600000
    ELSE IF lastOp.cb = "day" THEN 86400000 ELSE 604800000
C29_InWindow ==
    SelectSeq(GetOrEmpty(snapshots, lastOp.name),
              LAMBDA s : (now - s.timestamp) * 3000 <= C29_WindowMs)

\* C29 (SpecMetrics): both getHistoricalMetrics count exactly the samples at
\* most the timeframe old (the facade also returns them); with none, every
\* metric is 0; with some but none of non-negative latency, avgPing and
\* p95Ping are 0; and no quotient has a zero divisor.
C29_TimeWindow ==
    MetricsQueried =>
        LET inWindow == C29_InWindow
            valid == SelectSeq(inWindow, LAMBDA s : s.pingTime >= 0)
            metrics == returned[1]
        IN  /\ lastOp.op = "getHistoricalMetrics" => metrics.snapshots = inWindow
            /\ inWindow = <<>> =>
                  /\ metrics.availabilityPercentage = ZeroRatio
                  /\ metrics.avgPing = ZeroRatio
                  /\ metrics.p95Ping = 0
                  /\ metrics.avgDownloadSpeed = ZeroRatio
                  /\ metrics.avgUploadSpeed = ZeroRatio
            /\ inWindow # <<>> => metrics.availabilityPercentage.den = Len(inWindow)
            /\ valid = <<>> => (metrics.avgPing = ZeroRatio /\ metrics.p95Ping = 0)
            /\ valid # <<>> => metrics.avgPing.den = Len(valid)
            /\ metrics.avgDownloadSpeed.den > 0 /\ metrics.avgUploadSpeed.den > 0

\* The metrics of the last hour, asked when the last sample of four, a
\* timeout, is exactly one hour old: it is the only one counted.
C29_Witness ==
    /\ MetricsQueried
    /\ lastOp.cb = "hour"
    /\ Len(GetOrEmpty(snapshots, lastOp.name)) = MixedLen
    /\ Len(C29_InWindow) = 1
    /\ (now - C29_InWindow[1].timestamp) * 3000 = 3600000
    /\ C29_InWindow[1].pingTime < 0
    /\ returned[1].availabilityPercentage = Ratio(0, 1)

\* C30 (SpecObs): initializeNetwork applied twice gives what it gives applied
\* once; a start adds an empty series for its network when there is none
\* and leaves every existing series as it is; and no step removes a key.
C30_EnsureNetwork ==
    [][/\ Keys(snapshots) \subseteq Keys(snapshots')
       /\ \A k \in {OrDefault(n) : n \in NetworkArgs} :
             initializeNetwork(initializeNetwork(snapshots, k), k)
                 = initializeNetwork(snapshots, k)
       /\ lastOp'.op = "start" =>
             /\ Keys(snapshots') = Keys(snapshots) \cup {lastOp'.name}
             /\ \A k \in Keys(snapshots) : snapshots'[k] = snapshots[k]
             /\ lastOp'.name \notin Keys(snapshots) => snapshots'[lastOp'.name] = <<>>]_vars

\* Monitoring was started again for a network that holds a sample.
C30_Witness ==
    /\ lastOp.op = "start"
    /\ lastOp.name = "A"
    /\ Len(GetOrEmpty(snapshots, "A")) >= 1
    /\ snapshots["A"] = arrived["A"]

\* C31 (SpecFrame): a step changes at most one series, and only by appending
\* one sample at its end, after dropping the oldest sample when and only when
\* the series holds 100; such a step is the completion of a tick. Start, stop,
\* subscribe and unsubscribe leave every existing series as it is.
C31_Changed == {k \in Keys(snapshots') : GetOrEmpty(snapshots, k) # snapshots'[k]}
C31_AppendOnly ==
    [][/\ Keys(snapshots) \subseteq Keys(snapshots')
       /\ Cardinality(C31_Changed) <= 1
       /\ \A k \in C31_Changed :
             LET old == GetOrEmpty(snapshots, k)
                 new == snapshots'[k]
             IN  /\ lastOp'.op \in {"pingDone", "speedDone"}
                 /\ new = Append(IF Len(old) = MaxSnapshots THEN Tail(old) ELSE old,
                                 new[Len(new)])
       /\ lastOp'.op \in {"start", "stop", "subscribe", "unsubscribe"} =>
             \A k \in Keys(snapshots) : snapshots'[k] = snapshots[k]]_vars

\* The series of A is full and its oldest sample has been evicted, and the
\* last step was an unsubscribe.
C31_Witness ==
    /\ lastOp.op = "unsubscribe"
    /\ Len(GetOrEmpty(snapshots, "A")) = MaxSnapshots
    /\ Len(arrived["A"]) > MaxSnapshots

\* C32 (Spec): within every series the timestamps never decrease from one
\* stored sample to the next.
C32_TimestampsOrdered ==
    \A k \in Keys(snapshots) :
        \A i \in 1..(Len(snapshots[k]) - 1) :
            snapshots[k][i].timestamp <= snapshots[k][i + 1].timestamp

\* C33 (Spec): the step that appends a sample to the series of its network
\* appends one with throughput fields exactly when that series held a
\* multiple of 5 samples before the step.
C33_SpeedByOwnLength ==
    [][(lastOp'.op \in {"pingDone", "speedDone"} /\ lastOp'.name # "") =>
          LET k == lastOp'.name
              new == snapshots'[k]
          IN  hasSpeed(new[Len(new)])
                  <=> speedTestDue(Len(GetOrEmpty(snapshots, k)))]_vars

\* C34 (SpecLive): with every measurement eventually returning, the n-th tick
\* of a scheduler that stays Running on one network leads to a step that
\* appends the n-th sample to the series of that network and calls every
\* series observer then registered under it with a series that holds the
\* sample; and no tick stores more than one sample.
C34_Delivered(n) ==
    LET K == currentNetwork
        regs == GetOrEmpty(subscribers, K)
    IN  /\ Appended
        /\ lastOp.name = K
        /\ Len(GetOrEmpty(arrived, K)) = n
        /\ snapshots[K][Len(snapshots[K])] = arrived[K][n]
        /\ \A i \in 1..Len(regs) :
              regs[i].kind = "series" =>
                  \E j \in 1..Len(calls) :
                      /\ calls[j].cb = regs[i].cb
                      /\ calls[j].kind = "series"
                      /\ \E m \in 1..Len(calls[j].series) :
                             calls[j].series[m] = arrived[K][n]
C34_TickLeadsToSample ==
    /\ [](Len(GetOrEmpty(arrived, currentNetwork)) <= now)
    /\ \A n \in 1..LiveTicks :
          (lastOp.op = "tick" /\ now = n) ~> C34_Delivered(n)

\* The last sample was appended while an observer was registered under the
\* monitored network, and it was called.
C34_Witness ==
    /\ C34_Delivered(LiveTicks)
    /\ Len(GetOrEmpty(subscribers, currentNetwork)) = 1
    /\ Len(calls) >= 1

\* C35 (SpecAbort): after a start or a stop, whether it returned or was left
\* by an exception, the scheduler reports Running exactly when a timer is
\* active.
C35_RunningIffTimer ==
    lastOp.op \in {"start", "stop"} => (isMonitoring <=> timers # {})

\* C36 (SpecObs): a start or a stop calls the monitoring-state observers
\* only when it changes the state, and then each of them once, with the new
\* state; so a start from Idle makes one call (true) per observer, a stop
\* while Idle makes none, and the values an observer is handed alternate.
C36_NotifyOnChangeOnly ==
    [][lastOp'.op \in {"start", "stop"} =>
          calls' = (IF isMonitoring' # isMonitoring
                    THEN [i \in 1..Len(monitoringSubscribers) |->
                            MonitoringCall(monitoringSubscribers[i], isMonitoring')]
                    ELSE <<>>)]_vars

\* C38 (SpecObs): every subscribe and every onMonitoringChange call adds a
\* registration of its own, so that the unsubscribe function of another
\* call cannot remove it: the number of registrations under the key (of
\* monitoring-state registrations) grows by one.
C38_OwnRegistration ==
    [][/\ lastOp'.op = "subscribe" =>
             Len(GetOrEmpty(subscribers', lastOp'.name))
                 = Len(GetOrEmpty(subscribers, lastOp'.name)) + 1
       /\ lastOp'.op = "onMonitoringChange" =>
             Len(monitoringSubscribers') = Len(monitoringSubscribers) + 1]_vars

\* C39 (SpecMono): every sample stored in the series of key K carries the
\* network name K, a sample without a name counting as "default".
C39_StoredUnderOwnName ==
    \A k \in Keys(snapshots) :
        \A i \in 1..Len(snapshots[k]) :
            OrDefault(snapshots[k][i].networkName) = k

\* The non-negative latencies among the in-window samples of the last query.
C37_Valid == {InWindow[i].pingTime : i \in {j \in 1..Len(InWindow) : InWindow[j].pingTime >= 0}}

====
